---- MODULE Spec2Model ----
(***************************************************************************)
(* State-machine model of the washing-tracker server (src/src/index.mjs):  *)
(* an express application in front of one DynamoDB table that holds the    *)
(* meter readings and the monthly per-account aggregate rows.              *)
(*                                                                         *)
(* Units.  Meter values (currentKWh, startKWh, endKWh, deltaKWh) are       *)
(* multiples of 0.0002 kWh, counted in that unit (5000 units = 1 kWh), so  *)
(* that the server's rounding to 3 decimals (a multiple of 5 units) is a   *)
(* real computation.  On this grid a difference of two values is never an  *)
(* odd multiple of 0.0005 kWh, so toFixed(3) of the binary double the code *)
(* computes is the nearest multiple of 0.001 of the exact difference: the  *)
(* error of the double (below 1e-9 kWh) is far below the 0.0001 kWh that   *)
(* separate a value of the grid from the nearest rounding boundary.        *)
(* Time is counted in clock ticks; a UTC day has TicksPerDay ticks and     *)
(* Date.UTC / Date.now are modelled on that grid.  Strings that the code   *)
(* builds by concatenation (`ACCOUNT#${username}#${ym}`) are tuples of     *)
(* their parts.                                                            *)
(*                                                                         *)
(* Reads of the table.  The Query on the global secondary index            *)
(* TimestampIndex and the GetItem without ConsistentRead are eventually    *)
(* consistent reads.  The index receives the items of the table one by     *)
(* one, some time after they are written: a Query is answered from the     *)
(* stored readings the index holds by then, some subset of those in the    *)
(* table.  A GetItem is answered with the item of the key as it is, as it  *)
(* was before an update, or with no item.  The writes (PutItem,            *)
(* UpdateItem) act on the current state of the table.                      *)
(***************************************************************************)
EXTENDS Integers, Sequences, FiniteSets, TLC

VARIABLES
    table,      \* the DynamoDB table: a set of items (readings and aggregate rows)
    replaced,   \* the items a write has replaced: the earlier versions of the items of the table
    now,        \* the wall clock read by Date.now() / new Date()
    nextId,     \* number of ids uuidv4() has handed out so far
    pc,         \* per request slot: position of the POST /readings handler
    req,        \* per request slot: the request being handled (username, body, Items of its query)
    reading,    \* per request slot: the reading object built by the handler
    get,        \* the GET handler that waits for the table (NoRequest: none)
    reply       \* the HTTP response on its way to the client (NoReply: none), with its request

vars == <<table, replaced, now, nextId, pc, req, reading, get, reply>>

-----------------------------------------------------------------------------
(* Bounds of the model *)

\* Number of readings the handlers may insert in one run.
MaxReadings == 2

\* Resolution of the model clock: ticks per UTC day.
TicksPerDay == 2

\* Number of readings in a list the page aggregates on its own.
MaxListed == 2

\* Number of ticks the clock advances in one run.
MaxTicks == 1

\* Slots for concurrent POST /readings requests (lambda invocations); an
\* arriving request takes the first free slot.
Procs == {1, 2}

-----------------------------------------------------------------------------
(* JavaScript values that cross the HTTP boundary *)

Undefined == [t |-> "undefined"]
Num(n) == [t |-> "number", fin |-> TRUE, v |-> n]
Infinity == [t |-> "number", fin |-> FALSE]
Str(s) == [t |-> "string", v |-> s]

\* A field of an item or object, `undefined` when the object has no such field.
Field(obj, f) == IF f \in DOMAIN obj THEN obj[f] ELSE Undefined

-----------------------------------------------------------------------------
(* Date.UTC and the UTC calendar *)

\* Days from 1970-01-01 to the first day of month m (1..12) of year y
\* (proleptic Gregorian calendar, as ECMAScript's MakeDay).
DaysFromCivil(y, m) ==
    LET yy  == IF m <= 2 THEN y - 1 ELSE y
        era == yy \div 400
        yoe == yy - era * 400
        mp  == IF m > 2 THEN m - 3 ELSE m + 9
        doy == (153 * mp + 2) \div 5
        doe == yoe * 365 + yoe \div 4 - yoe \div 100 + doy
    IN  era * 146097 + doe - 719468

\* NaN where the model keeps a Number as an integer (time values, years and
\* months of a Date): an integer no instant, year or month takes.  It
\* compares as an integer does, so a formula that orders two time values has
\* to set it apart; NaN < NaN is false here as it is in the code.
NotANumber == 0 - 2147483647

\* The range of Date: 8.64e15 ms, 100,000,000 days, on either side of the epoch.
MaxTimeValue == 100000000 * TicksPerDay

\* TimeClip(time): NaN beyond the range of Date.
TimeClip(time) ==
    IF time > MaxTimeValue \/ time < 0 - MaxTimeValue THEN NotANumber ELSE time

\* Date.UTC(year, month0, 1, 0, 0, 0): a year in 0..99 means 1900 + year, a
\* month index outside 0..11 carries into the year, and the result goes
\* through TimeClip; NaN for an argument that is NaN.
DateUTC(year, month0) ==
    IF year = NotANumber \/ month0 = NotANumber THEN NotANumber
    ELSE LET full == IF 0 <= year /\ year <= 99 THEN 1900 + year ELSE year
             y    == full + month0 \div 12
             m    == month0 % 12
         IN  TimeClip(DaysFromCivil(y, m + 1) * TicksPerDay)

\* The civil date of an instant: [year, month0], the inverse of DaysFromCivil
\* (ECMAScript's YearFromTime and MonthFromTime); NaN for an invalid Date.
CivilFromTime(ms) ==
    IF ms = NotANumber THEN [year |-> NotANumber, month0 |-> NotANumber] ELSE
    LET z   == (ms \div TicksPerDay) + 719468
        era == z \div 146097
        doe == z - era * 146097
        yoe == (doe - doe \div 1460 + doe \div 36524 - doe \div 146096) \div 365
        doy == doe - (365 * yoe + yoe \div 4 - yoe \div 100)
        mp  == (5 * doy + 2) \div 153
        m   == IF mp < 10 THEN mp + 3 ELSE mp - 9
    IN  [year |-> yoe + era * 400 + (IF m <= 2 THEN 1 ELSE 0), month0 |-> m - 1]

\* new Date(ms).getUTCFullYear()
GetUTCFullYear(ms) == CivilFromTime(ms).year

\* new Date(ms).getUTCMonth(), 0..11
GetUTCMonth(ms) == CivilFromTime(ms).month0

-----------------------------------------------------------------------------
(* parseInt on query-string values; a string is a sequence of characters *)

Digits == {"0", "1", "2", "3", "4", "5", "6", "7", "8", "9"}

DigitVal(c) ==
    CASE c = "0" -> 0 [] c = "1" -> 1 [] c = "2" -> 2 [] c = "3" -> 3 [] c = "4" -> 4
      [] c = "5" -> 5 [] c = "6" -> 6 [] c = "7" -> 7 [] c = "8" -> 8 [] c = "9" -> 9

NaN == [nan |-> TRUE]
Int32(n) == [nan |-> FALSE, v |-> n]

\* The characters StrWhiteSpaceChar matches (WhiteSpace and LineTerminator):
\* tab, line feed, vertical tab, form feed, carriage return and space, and
\* beyond ASCII the no-break space, the byte order mark, the line and
\* paragraph separators and the other space separators, the latter written
\* by their escapes.
WhiteSpace ==
    {"\t", "\n", "\\v", "\f", "\r", " ", "\\u00A0", "\\uFEFF", "\\u2028", "\\u2029",
     "\\u1680", "\\u2000", "\\u2001", "\\u2002", "\\u2003", "\\u2004", "\\u2005",
     "\\u2006", "\\u2007", "\\u2008", "\\u2009", "\\u200A", "\\u202F", "\\u205F",
     "\\u3000"}

\* The string without its leading white space (TrimString of parseInt).
RECURSIVE SkipSpaces(_)
SkipSpaces(s) == IF Len(s) > 0 /\ Head(s) \in WhiteSpace THEN SkipSpaces(Tail(s)) ELSE s

HexDigits ==
    Digits \cup {"a", "b", "c", "d", "e", "f", "A", "B", "C", "D", "E", "F"}

HexVal(c) ==
    CASE c \in Digits -> DigitVal(c)
      [] c \in {"a", "A"} -> 10 [] c \in {"b", "B"} -> 11 [] c \in {"c", "C"} -> 12
      [] c \in {"d", "D"} -> 13 [] c \in {"e", "E"} -> 14 [] c \in {"f", "F"} -> 15

\* Value of the longest prefix of hexadecimal digits of s, read after acc.
RECURSIVE HexPrefix(_, _)
HexPrefix(s, acc) ==
    IF Len(s) > 0 /\ Head(s) \in HexDigits
    THEN HexPrefix(Tail(s), acc * 16 + HexVal(Head(s)))
    ELSE acc

\* Value of the longest prefix of decimal digits of s, read after acc.
RECURSIVE DigitPrefix(_, _)
DigitPrefix(s, acc) ==
    IF Len(s) > 0 /\ Head(s) \in Digits
    THEN DigitPrefix(Tail(s), acc * 10 + DigitVal(Head(s)))
    ELSE acc

\* parseInt(q) for q undefined or a string, no radix given: white space and
\* a sign are skipped, a 0x or 0X that follows makes the radix 16, and the
\* longest prefix of digits of the radix is the value, NaN when it is empty.
ParseInt(q) ==
    IF q = Undefined THEN NaN
    ELSE LET s    == SkipSpaces(q.v)
             neg  == Len(s) > 0 /\ Head(s) = "-"
             body == IF Len(s) > 0 /\ Head(s) \in {"-", "+"} THEN Tail(s) ELSE s
             hex  == Len(body) >= 2 /\ body[1] = "0" /\ body[2] \in {"x", "X"}
             rest == IF hex THEN SubSeq(body, 3, Len(body)) ELSE body
             abs  == IF hex THEN HexPrefix(rest, 0) ELSE DigitPrefix(rest, 0)
         IN  IF Len(rest) = 0 \/ Head(rest) \notin (IF hex THEN HexDigits ELSE Digits)
             THEN NaN
             ELSE Int32(IF neg THEN 0 - abs ELSE abs)

-----------------------------------------------------------------------------
(* Helpers of index.mjs *)

\* parseYearMonth(queryYear, queryMonth)
parseYearMonth(queryYear, queryMonth) ==
    LET py    == ParseInt(queryYear)
        pm    == ParseInt(queryMonth)
        year  == IF ~py.nan THEN py.v ELSE GetUTCFullYear(now)
    IN  IF ~pm.nan /\ pm.v >= 1 /\ pm.v <= 12
        THEN LET month == pm.v - 1
             IN  [year |-> year,
                  startTimestamp |-> DateUTC(year, month),
                  endTimestamp   |-> DateUTC(year, month + 1)]
        ELSE [year |-> year,
              startTimestamp |-> DateUTC(year, 0),
              endTimestamp   |-> DateUTC(year + 1, 0)]

\* ymKeyParts(dateMs); ym is the pair behind the label `${y}-${mm}`, the
\* pair of NaN behind "NaN-NaN".
ymKeyParts(dateMs) ==
    LET y  == GetUTCFullYear(dateMs)
        m  == GetUTCMonth(dateMs)
        mm == IF m = NotANumber THEN NotANumber ELSE m + 1
    IN  [year |-> y, month0 |-> m, ym |-> <<y, mm>>, monthStartTs |-> DateUTC(y, m)]

ToFixed3_Exact(x) == x

\* x.toFixed(3) read back by parseFloat, for x a difference of two meter
\* values: the nearest multiple of 0.001 kWh (5 units); x lies 1 or 2 units
\* from it, never halfway.
ToFixed3(x) ==
    IF x >= 0 THEN ((x + 2) \div 5) * 5 ELSE 0 - (((0 - x) + 2) \div 5) * 5

-----------------------------------------------------------------------------
(* checkAuthentication *)

\* A CF_Authorization cookie that is a string carries the payload jwt.decode
\* extracts from it (null when the string is no JWT).
Jwt(payload) == [t |-> "string", payload |-> payload]
Null == [t |-> "null"]
Claims(name) == [t |-> "object", custom |-> [family_name |-> name]]
NoClaims == [t |-> "object"]

checkAuthentication_AnyDecoded(cookie) ==
    IF cookie.t # "string"
    THEN [status |-> 401]
    ELSE LET decoded == cookie.payload
         IN  [status |-> 200,
              username |-> IF "custom" \in DOMAIN decoded /\ decoded.custom.family_name # ""
                           THEN decoded.custom.family_name
                           ELSE "unknown"]

checkAuthentication(cookie) ==
    IF cookie.t # "string"
    THEN [status |-> 401]
    ELSE LET decoded == cookie.payload
         IN  IF decoded.t # "object"
             THEN [status |-> 401]
             ELSE [status |-> 200,
                   username |-> IF "custom" \in DOMAIN decoded /\ decoded.custom.family_name # ""
                                THEN decoded.custom.family_name
                                ELSE "unknown"]

-----------------------------------------------------------------------------
(* The table and its TimestampIndex *)

AllReadingsPK == <<"ALL_READINGS">>
AccountPK(username) == <<"ACCOUNT#", username>>
AggId(username, ym) == <<"ACCOUNT#", username, ym>>

\* Partition `pk` of the TimestampIndex, the table being in state T.
IndexPartition(T, pk) == {i \in T : i.GlobalPK = pk}

\* The stored readings.
Readings == IndexPartition(table, AllReadingsPK)

\* The states the partition ALL_READINGS of the index may be in: the stored
\* readings the index has received so far.
IndexViews == SUBSET Readings

\* The Items of the "last reading" query when the index holds the readings
\* R; items of equal timestamp come in no specified order.
LastItems(R) ==
    IF R = {} THEN {<< >>}
    ELSE {<<r>> : r \in {x \in R : \A o \in R : o.timestamp <= x.timestamp}}

\* Query(GlobalPK = ALL_READINGS, ScanIndexForward: false, Limit: 1) on the
\* TimestampIndex: the possible Items.
QueryLastItems == UNION {LastItems(R) : R \in IndexViews}

QueryBetween_AnyPartition(lo, hi) ==
    {{r \in R : lo <= r.timestamp /\ r.timestamp <= hi} : R \in SUBSET table}

\* Query(GlobalPK = ALL_READINGS AND timestamp BETWEEN lo AND hi) on the
\* TimestampIndex: the possible sets of items matched.
QueryBetween(lo, hi) ==
    {{r \in R : lo <= r.timestamp /\ r.timestamp <= hi} : R \in IndexViews}

\* The orders, newest first, in which a Query may return the items of S;
\* items of equal timestamp come in no specified order.
RECURSIVE NewestFirst(_)
NewestFirst(S) ==
    IF S = {} THEN {<< >>}
    ELSE UNION {{<<x>> \o q : q \in NewestFirst(S \ {x})} :
                   x \in {y \in S : \A o \in S : o.timestamp <= y.timestamp}}

PutItem_Overwrite(item) == {i \in table : i.GlobalPK # item.GlobalPK} \cup {item}

PutItem_IfStillLatest(item) ==
    IF \A r \in Readings : r.timestamp <= item.timestamp => r.endKWh <= item.startKWh
    THEN {i \in table : i.washId # item.washId} \cup {item}
    ELSE table

\* PutItem: replaces the item of the same key.
PutItem(item) == {i \in table : i.washId # item.washId} \cup {item}

UpdateAggregate_Double(username, ym, delta, monthStartTs, at) ==
    LET key == AggId(username, ym)
        old == {i \in table : i.washId = key}
        sum == IF old = {} THEN 2 * delta
               ELSE (CHOOSE i \in old : TRUE).totalKWh + 2 * delta
    IN  (table \ old) \cup
        {[washId |-> key, totalKWh |-> sum, username |-> username, period |-> ym,
          GlobalPK |-> AccountPK(username), timestamp |-> monthStartTs, updatedAt |-> at]}

UpdateAggregate_Set(username, ym, delta, monthStartTs, at) ==
    LET key == AggId(username, ym)
        old == {i \in table : i.washId = key}
    IN  (table \ old) \cup
        {[washId |-> key, totalKWh |-> delta, username |-> username, period |-> ym,
          GlobalPK |-> AccountPK(username), timestamp |-> monthStartTs, updatedAt |-> at]}

\* UpdateItem 'ADD totalKWh :delta SET username, period, GlobalPK, timestamp, updatedAt'
UpdateAggregate(username, ym, delta, monthStartTs, at) ==
    LET key == AggId(username, ym)
        old == {i \in table : i.washId = key}
        sum == IF old = {} THEN delta
               ELSE (CHOOSE i \in old : TRUE).totalKWh + delta
    IN  (table \ old) \cup
        {[washId |-> key, totalKWh |-> sum, username |-> username, period |-> ym,
          GlobalPK |-> AccountPK(username), timestamp |-> monthStartTs, updatedAt |-> at]}

\* GetItem(washId = key) without ConsistentRead: the possible results, each
\* the set of the item found (empty for none): the item as it is, as it was
\* before a write, or no item.
GetItem(key) == {{i} : i \in {x \in table \cup replaced : x.washId = key}} \cup {{}}

-----------------------------------------------------------------------------
(* Inputs of the requests *)

\* The instant a run starts at: one tick before 2025-01-01T00:00:00Z.  The
\* clock advances on its own, whatever the handlers do, so the instants of a
\* run straddle the turn of the month and of the year.
StartTime == DateUTC(2025, 0) - 1

Cookies ==
    {Undefined, [t |-> "object"], Jwt(Null),
     Jwt(Claims("alice")), Jwt(Claims("bob")), Jwt(NoClaims)}

\* Cookies of the clients that submit readings.
PostCookies == Cookies \ {Jwt(NoClaims)}

\* The cookie of the one client that submits readings where the submissions
\* run one after another.
OneClient == {Jwt(Claims("alice"))}

\* Values of the query parameters year and month.
YearQueries == {Undefined, Str(<<"2", "0", "2", "4">>)}
MonthQueries == {Undefined, Str(<<"1", "2">>)}

\* Values of the path parameter of /accounts/:username/summary.
AccountParams == {"alice", "bob"}

\* Values of body.currentKWh, the numbers in units of 0.0002 kWh:
\* 10.0, 10.0004 and 10.0012 kWh are the valid ones.
KWhInputs ==
    {Str("12"), Infinity, Num(0), Num(50000), Num(50002), Num(50006)}

\* Values of body.forUsername.
ForUsernames == {Undefined, Str("bob")}

\* Values of body.notes.
NotesInputs == {Undefined}

Bodies ==
    {[currentKWh |-> k, notes |-> n, forUsername |-> f] :
        k \in KWhInputs, n \in NotesInputs, f \in ForUsernames}

\* The bodies without forUsername, 10.0 and 10.0012 kWh the valid values.
PlainBodies == {b \in Bodies : b.forUsername = Undefined /\ b.currentKWh # Num(50002)}

NoRequest == [t |-> "none"]
NoGet == [route |-> "none"]
NoReply == [route |-> "none"]

\* Instants of the clock the isolated checks start from: the last tick of 2024,
\* the first of 2025 and one in July 2025.
Instants == {DateUTC(2025, 0) - 1, DateUTC(2025, 0), DateUTC(2025, 6)}

-----------------------------------------------------------------------------
(* The state after the module is loaded and the table is created *)

Init ==
    /\ table = {}
    /\ replaced = {}
    /\ now = StartTime
    /\ nextId = 0
    /\ pc = [p \in Procs |-> "idle"]
    /\ req = [p \in Procs |-> NoRequest]
    /\ reading = [p \in Procs |-> NoRequest]
    /\ get = NoGet
    /\ reply = NoReply

\* Slot p is the first free one, and the response before has left.
FirstFree(p) == reply = NoReply /\ pc[p] = "idle" /\ \A q \in Procs : q < p => pc[q] # "idle"

\* The response reaches the client.
Deliver ==
    /\ reply # NoReply
    /\ reply' = NoReply
    /\ UNCHANGED <<table, replaced, now, nextId, pc, req, reading, get>>

\* Time passes: the clock advances by one tick.
Tick ==
    /\ reply = NoReply
    /\ now < StartTime + MaxTicks
    /\ now' = now + 1
    /\ UNCHANGED <<table, replaced, nextId, pc, req, reading, get, reply>>

\* Slot p sends the response `r` and is free again.
Respond(p, r) ==
    /\ reply' = r
    /\ pc' = [pc EXCEPT ![p] = "idle"]
    /\ req' = [req EXCEPT ![p] = NoRequest]
    /\ reading' = [reading EXCEPT ![p] = NoRequest]

-----------------------------------------------------------------------------
(* POST /readings *)

ValidCurrentKWh_AllowsZero(k) == k.t = "number" /\ k.fin /\ ~(k.v < 0)

\* The check of currentKWh at the head of the handler.
ValidCurrentKWh(k) == k.t = "number" /\ k.fin /\ ~(k.v <= 0)

StartKWh_LastStart(items) ==
    LET lastReading == IF Len(items) > 0 THEN items[1] ELSE Undefined
    IN  IF lastReading # Undefined /\ "startKWh" \in DOMAIN lastReading
        THEN lastReading.startKWh
        ELSE 0

\* startKWh, from the Items of the "last reading" query.
StartKWh(items) ==
    LET lastReading == IF Len(items) > 0 THEN items[1] ELSE Undefined
    IN  IF lastReading # Undefined /\ "endKWh" \in DOMAIN lastReading
        THEN lastReading.endKWh
        ELSE 0

\* deltaKWh of a reading from startKWh to endKWh.
DeltaKWh(startKWh, endKWh) == ToFixed3(endKWh - startKWh)

DeltaRefused_Never(deltaKWh) == FALSE

DeltaRefused_BelowMilli(deltaKWh) == deltaKWh <= 5

\* The check of the delta: TRUE when the submission is refused.
DeltaRefused(deltaKWh) == deltaKWh <= 0

\* The reading object the handler builds.
NewReading(id, username, startKWh, endKWh, deltaKWh, notes, ts) ==
    [washId    |-> id,
     username  |-> username,
     startKWh  |-> startKWh,
     endKWh    |-> endKWh,
     deltaKWh  |-> deltaKWh,
     notes     |-> notes,
     timestamp |-> ts,
     GlobalPK  |-> AllReadingsPK]

\* A response of POST /readings with status `st` and the fields `more`.
PostReply(st, more) == [route |-> "POST /readings", status |-> st] @@ more

\* An authenticated request arrives: the check of currentKWh, then the query
\* for the last reading, which the handler awaits; Items is the answer of
\* the index.
PostReadings(p, cookie, body) ==
    /\ FirstFree(p)
    /\ checkAuthentication(cookie).status = 200
    /\ LET username == checkAuthentication(cookie).username
       IN  IF ~ValidCurrentKWh(body.currentKWh)
           THEN /\ reply' = PostReply(400, [currentKWh |-> body.currentKWh])
                /\ UNCHANGED <<table, replaced, now, nextId, pc, req, reading, get>>
           ELSE \E items \in QueryLastItems :
                     /\ req' = [req EXCEPT ![p] =
                                    [username |-> username, body |-> body, Items |-> items]]
                     /\ pc' = [pc EXCEPT ![p] = "resume"]
                     /\ reply' = NoReply
                     /\ UNCHANGED <<table, replaced, now, nextId, reading, get>>

\* The query for the last reading of a valid submission throws: the catch
\* block answers 500.
PostReadingsQueryFails(p, cookie, body) ==
    /\ FirstFree(p)
    /\ checkAuthentication(cookie).status = 200
    /\ ValidCurrentKWh(body.currentKWh)
    /\ reply' = PostReply(500, [at |-> "query"])
    /\ UNCHANGED <<table, replaced, now, nextId, pc, req, reading, get>>

\* The handler resumes with the Items of its query: the delta and its check,
\* then Date.now(), uuidv4(), the reading and the send of the PutCommand.
BuildReading(p) ==
    /\ reply = NoReply
    /\ pc[p] = "resume"
    /\ LET body     == req[p].body
           startKWh == StartKWh(req[p].Items)
           endKWh   == body.currentKWh.v
           deltaKWh == DeltaKWh(startKWh, endKWh)
           notes    == IF body.notes = Undefined THEN Str("") ELSE body.notes
       IN  IF DeltaRefused(deltaKWh)
           THEN /\ Respond(p, PostReply(400, [endKWh |-> endKWh, startKWh |-> startKWh]))
                /\ UNCHANGED <<table, replaced, now, nextId, get>>
           ELSE /\ nextId < MaxReadings
                /\ nextId' = nextId + 1
                /\ reading' = [reading EXCEPT ![p] =
                      NewReading(<<"uuid", nextId + 1>>, req[p].username,
                                 startKWh, endKWh, deltaKWh, notes, now)]
                /\ req' = [req EXCEPT ![p] = [username |-> req[p].username]]
                /\ pc' = [pc EXCEPT ![p] = "put"]
                /\ reply' = NoReply
                /\ UNCHANGED <<table, replaced, now, get>>

\* The table executes the PutCommand and the handler sends the aggregate update.
PutReading(p) ==
    /\ reply = NoReply
    /\ pc[p] = "put"
    /\ table' = PutItem(reading[p])
    /\ replaced' = replaced \cup (table \ table')
    /\ pc' = [pc EXCEPT ![p] = "aggregate"]
    /\ reply' = NoReply
    /\ UNCHANGED <<now, nextId, req, reading, get>>

\* The table executes the UpdateItemCommand and the handler answers 201.
UpdateMonthly(p) ==
    /\ reply = NoReply
    /\ pc[p] = "aggregate"
    /\ LET parts == ymKeyParts(reading[p].timestamp)
       IN  table' = UpdateAggregate(req[p].username, parts.ym, reading[p].deltaKWh,
                                    parts.monthStartTs, reading[p].timestamp)
    /\ replaced' = replaced \cup (table \ table')
    /\ Respond(p, PostReply(201, [reading |-> reading[p]]))
    /\ UNCHANGED <<now, nextId, get>>

StoreFails_RollsBack(p) ==
    /\ reply = NoReply
    /\ pc[p] \in {"put", "aggregate"}
    /\ table' = table \ {reading[p]}
    /\ replaced' = replaced \cup (table \ table')
    /\ Respond(p, PostReply(500, [at |-> pc[p]]))
    /\ UNCHANGED <<now, nextId, get>>

\* The PutCommand or the UpdateItemCommand throws: the catch block answers 500.
StoreFails(p) ==
    /\ reply = NoReply
    /\ pc[p] \in {"put", "aggregate"}
    /\ Respond(p, PostReply(500, [at |-> pc[p]]))
    /\ UNCHANGED <<table, replaced, now, nextId, get>>

-----------------------------------------------------------------------------
(* The GET routes *)

Routes ==
    {"GET /username", "GET /readings", "POST /readings", "GET /latest-kwh",
     "GET /accounts/:username/summary", "*"}

\* checkAuthentication answers 401 and the route's handler does not run.
Unauthenticated(cookie, route) ==
    /\ reply = NoReply
    /\ checkAuthentication(cookie).status = 401
    /\ reply' = [route |-> route, status |-> 401]
    /\ UNCHANGED <<table, replaced, now, nextId, pc, req, reading, get>>

\* GET /username
GetUsername(cookie) ==
    /\ reply = NoReply
    /\ checkAuthentication(cookie).status = 200
    /\ reply' = [route |-> "GET /username", status |-> 200,
                 username |-> checkAuthentication(cookie).username]
    /\ UNCHANGED <<table, replaced, now, nextId, pc, req, reading, get>>

\* GET /readings?year=&month=: the request arrives, the handler computes the
\* window from the query and the clock and sends the Query, which it awaits.
GetReadings(cookie, year, month) ==
    /\ reply = NoReply
    /\ get = NoGet
    /\ checkAuthentication(cookie).status = 200
    /\ get' = [route |-> "GET /readings", year |-> year, month |-> month,
               window |-> parseYearMonth(year, month)]
    /\ UNCHANGED <<table, replaced, now, nextId, pc, req, reading, reply>>

\* The index answers the Query of GET /readings and the handler responds.
\* A bound of the window that is NaN is refused when the command is
\* marshalled (lib-dynamodb allows no NaN): the send throws and the catch
\* block answers 500.
AnswerReadings ==
    /\ reply = NoReply
    /\ get.route = "GET /readings"
    /\ IF NotANumber \in {get.window.startTimestamp, get.window.endTimestamp}
       THEN reply' = [route |-> "GET /readings", status |-> 500]
       ELSE \E found \in QueryBetween(get.window.startTimestamp, get.window.endTimestamp) :
               \E items \in NewestFirst(found) :
                   reply' = [route |-> "GET /readings", year |-> get.year,
                             month |-> get.month, window |-> get.window,
                             status |-> 200, items |-> items]
    /\ get' = NoGet
    /\ UNCHANGED <<table, replaced, now, nextId, pc, req, reading>>

\* last?.endKWh ?? 0, from the Items of the "last reading" query.
LatestEndKWh(items) ==
    IF Len(items) > 0 /\ "endKWh" \in DOMAIN items[1] THEN items[1].endKWh ELSE 0

\* GET /latest-kwh
GetLatestKWh(cookie) ==
    /\ reply = NoReply
    /\ checkAuthentication(cookie).status = 200
    /\ \E items \in QueryLastItems :
          reply' = [route |-> "GET /latest-kwh", status |-> 200,
                    latestEndKWh |-> LatestEndKWh(items)]
    /\ UNCHANGED <<table, replaced, now, nextId, pc, req, reading, get>>

\* GET /accounts/:username/summary?year=&month=: the request arrives, the
\* handler computes the period from the query and the clock and sends the
\* GetItem, which it awaits.
GetAccountSummary(cookie, username, year, month) ==
    /\ reply = NoReply
    /\ get = NoGet
    /\ checkAuthentication(cookie).status = 200
    /\ get' = [route |-> "GET /accounts/:username/summary", username |-> username,
               year |-> year, month |-> month,
               period |-> ymKeyParts(parseYearMonth(year, month).startTimestamp).ym]
    /\ UNCHANGED <<table, replaced, now, nextId, pc, req, reading, reply>>

\* The table answers the GetItem of the summary and the handler responds.
AnswerSummary ==
    /\ reply = NoReply
    /\ get.route = "GET /accounts/:username/summary"
    /\ \E item \in GetItem(AggId(get.username, get.period)) :
          reply' = [route |-> "GET /accounts/:username/summary", username |-> get.username,
                    year |-> get.year, month |-> get.month,
                    status |-> 200, period |-> get.period,
                    totalKWh |-> IF item # {} /\ "totalKWh" \in DOMAIN (CHOOSE i \in item : TRUE)
                                 THEN (CHOOSE i \in item : TRUE).totalKWh ELSE 0]
    /\ get' = NoGet
    /\ UNCHANGED <<table, replaced, now, nextId, pc, req, reading>>

StoreRoutes == {"GET /readings", "GET /latest-kwh", "GET /accounts/:username/summary"}

\* The send of one of the GET routes throws: the catch block answers 500.
GetFails(cookie, route) ==
    /\ reply = NoReply
    /\ checkAuthentication(cookie).status = 200
    /\ reply' = [route |-> route, status |-> 500]
    /\ UNCHANGED <<table, replaced, now, nextId, pc, req, reading, get>>

-----------------------------------------------------------------------------
(* Requests no route matches: express.static and the catch-all *)

\* A path is the sequence of its segments, and a segment the sequence of the
\* pieces its dots separate: /js/main.js is <<<<"js">>, <<"main", "js">>>>.
\* Files under public/home.
StaticFiles == {<< <<"index", "html">> >>, << <<"js">>, <<"main", "js">> >>}

\* /readings/:id ends with the id, one piece: an id handed out by uuidv4
\* holds no dot.
Path(segments) == [segments |-> segments]
ReadingPath(id) == [segments |-> << <<"readings">>, <<id>> >>, id |-> id]

\* req.path.includes('.'): some segment has more than one piece.
HasDotIn(segments) == \E i \in DOMAIN segments : Len(segments[i]) > 1

\* The requests no route matches: DELETE /readings/:id for the ids handed out
\* so far and one never handed out, and GETs of a file, of a page and of a
\* missing file.
Unrouted ==
    {[method |-> "DELETE", path |-> ReadingPath(<<"uuid", n>>)] : n \in 0 .. nextId}
    \cup {[method |-> "GET", path |-> Path(f)] :
            f \in {<< <<"js">>, <<"main", "js">> >>, << <<"history">> >>,
                   << <<"logo", "png">> >>}}

\* app.use('/', checkAuthentication, express.static(...)) and then the catch-all.
StaticOrCatchAll(cookie, r) ==
    /\ reply = NoReply
    /\ checkAuthentication(cookie).status = 200
    /\ LET username == checkAuthentication(cookie).username
           rq == [route |-> "*", method |-> r.method, path |-> r.path, username |-> username]
       IN  reply' =
             IF r.method \in {"GET", "HEAD"} /\ "id" \notin DOMAIN r.path
                                             /\ r.path.segments \in StaticFiles
             THEN rq @@ [status |-> 200, file |-> r.path.segments]
             ELSE IF ~HasDotIn(r.path.segments)
                  THEN rq @@ [status |-> 200, file |-> << <<"index", "html">> >>]
                  ELSE rq @@ [status |-> 404]
    /\ UNCHANGED <<table, replaced, now, nextId, pc, req, reading, get>>

-----------------------------------------------------------------------------
(* The client *)

\* The user a reading is shown for: r.ownerUsername || r.username (the
\* empty string is falsy).
Owner(r) ==
    IF "ownerUsername" \in DOMAIN r /\ r.ownerUsername # "" THEN r.ownerUsername
    ELSE IF "username" \in DOMAIN r THEN r.username ELSE Undefined

\* The readings the page offers to delete, those the current user recorded:
\* r.createdBy === currentUser || (!r.createdBy && r.username === currentUser).
Mine(r, currentUser) ==
    \/ "createdBy" \in DOMAIN r /\ r.createdBy = currentUser
    \/ /\ "createdBy" \notin DOMAIN r \/ r.createdBy = ""
       /\ "username" \in DOMAIN r
       /\ r.username = currentUser

\* round1(n): Math.round(n * 2) / 2, the nearest 0.5 kWh (2500 units), a tie
\* going up; the doubling, the tie (a multiple of 0.25) and the halving are
\* exact in binary.
round1(n) == ((2 * n + 2500) \div 5000) * 2500

\* round1(num / den), num a multiple of 0.5 kWh and den a count.
Round1Ratio(num, den) == ((2 * num + 2500 * den) \div (5000 * den)) * 2500

\* parseNum(v) for v a finite number.
parseNum(v) == v

UserOf_UsernameOnly(r) ==
    IF "username" \in DOMAIN r /\ r.username # "" THEN r.username ELSE "Unbekannt"

\* r.ownerUsername || r.username || 'Unbekannt'
UserOf(r) ==
    IF "ownerUsername" \in DOMAIN r /\ r.ownerUsername # "" THEN r.ownerUsername
    ELSE IF "username" \in DOMAIN r /\ r.username # "" THEN r.username
    ELSE "Unbekannt"

\* The sum of round1(parseNum(r.deltaKWh)) over the readings at the indexes I.
RECURSIVE SumRound1(_, _)
SumRound1(readings, I) ==
    IF I = {} THEN 0
    ELSE LET i == CHOOSE k \in I : TRUE
         IN  round1(parseNum(readings[i].deltaKWh)) + SumRound1(readings, I \ {i})

\* byUser of renderMonthlySummary and renderYearlySummary: per user the sum
\* and the count.
SummaryByUser(readings) ==
    LET all   == DOMAIN readings
        users == {UserOf(readings[i]) : i \in all}
        of(u) == {i \in all : UserOf(readings[i]) = u}
    IN  [u \in users |-> [sum |-> SumRound1(readings, of(u)), count |-> Cardinality(of(u))]]

\* aggregateYear(readings, year)
aggregateYear(readings, year) ==
    LET all      == DOMAIN readings
        d(i)     == round1(parseNum(readings[i].deltaKWh))
        users    == {UserOf(readings[i]) : i \in all}
        of(u)    == {i \in all : UserOf(readings[i]) = u}
        month(i) == GetUTCMonth(readings[i].timestamp) + 1
        months   == {month(i) : i \in all}
        in(m, u) == {i \in of(u) : month(i) = m}
        total    == SumRound1(readings, all)
    IN  [byUser |->
            [u \in users |->
                [kWh   |-> SumRound1(readings, of(u)),
                 count |-> Cardinality(of(u)),
                 min   |-> CHOOSE x \in {d(i) : i \in of(u)} : \A i \in of(u) : x <= d(i),
                 max   |-> CHOOSE x \in {d(i) : i \in of(u)} : \A i \in of(u) : x >= d(i)]],
         byMonthUser |->
            [m \in months |->
                [u \in {v \in users : in(m, v) # {}} |-> SumRound1(readings, in(m, u))]],
         totalKWh |-> round1(total),
         totalCount |-> Len(readings),
         firstDate |-> IF all = {} THEN Null
                       ELSE CHOOSE t \in {readings[i].timestamp : i \in all} :
                               \A i \in all : t <= readings[i].timestamp,
         lastDate |-> IF all = {} THEN Null
                      ELSE CHOOSE t \in {readings[i].timestamp : i \in all} :
                              \A i \in all : t >= readings[i].timestamp,
         avgPerReading |-> IF Len(readings) > 0 THEN Round1Ratio(total, Len(readings)) ELSE 0]

\* Values of deltaKWh in the lists the page receives: 0.2, 0.5 and 10.001 kWh.
ListedDeltas == {1000, 2500, 50005}

\* The fields that say whose a listed reading is.  POST /readings writes the
\* username of the principal ('unknown' for a token without name) and no
\* ownerUsername; the page also provides for the items of a table that other
\* versions of the server wrote to: a reading recorded for somebody else
\* (ownerUsername), one whose ownerUsername or username is the empty string,
\* and one with neither field.
ListedUsers ==
    {[username |-> "alice"], [username |-> "bob"], [username |-> "unknown"],
     [username |-> "alice", ownerUsername |-> "bob"],
     [username |-> "alice", ownerUsername |-> ""],
     [username |-> ""],
     [notes |-> Str("")]}

ListedReadings ==
    {[deltaKWh |-> d, timestamp |-> t] @@ who :
        d \in ListedDeltas, t \in Instants, who \in ListedUsers}

\* The lists of at most MaxListed readings.
ReadingLists == UNION {[1 .. n -> ListedReadings] : n \in 0 .. MaxListed}

\* The page has received the list of readings of a year.
InitClient ==
    /\ table = {}
    /\ replaced = {}
    /\ now \in Instants
    /\ nextId = 0
    /\ pc = [p \in Procs |-> "idle"]
    /\ req = [p \in Procs |-> NoRequest]
    /\ reading = [p \in Procs |-> NoRequest]
    /\ get = NoGet
    /\ \E items \in ReadingLists :
          reply = [route |-> "GET /readings", year |-> Undefined, month |-> Undefined,
                   status |-> 200, items |-> items]

\* The page aggregates the readings it received: the per-user sums of the
\* monthly and yearly summaries and aggregateYear of the report.
RenderSummaries ==
    /\ reply.route = "GET /readings"
    /\ reply.status = 200
    /\ reply' = [route |-> "render", readings |-> reply.items,
                 byUser |-> SummaryByUser(reply.items),
                 agg |-> aggregateYear(reply.items, GetUTCFullYear(now))]
    /\ UNCHANGED <<table, replaced, now, nextId, pc, req, reading, get>>

\* The users that open the page.
CurrentUsers == {"alice", "bob"}

\* renderTimeline(readings) for the signed-in user: the delete buttons it
\* leaves in the timeline, by the washId in their data-id, each with the
\* number of click listeners attached to it.  The days are rendered newest
\* first; after the cards of a day are appended, a listener is added to every
\* delete button the timeline holds by then.
renderTimeline(readings, currentUser) ==
    LET all      == DOMAIN readings
        mine     == {i \in all : Mine(readings[i], currentUser)}
        first    == {i \in mine : \A j \in mine :
                        \/ readings[i].timestamp > readings[j].timestamp
                        \/ readings[i].timestamp = readings[j].timestamp /\ i <= j}
        latestId == {readings[i].washId : i \in first}
        dayKey(i) == readings[i].timestamp \div TicksPerDay
        days     == {dayKey(i) : i \in all}
        shown    == {i \in all : readings[i].washId \in latestId}
    IN  [id \in {readings[i].washId : i \in shown} |->
            LET day == CHOOSE d \in days : \E i \in shown : readings[i].washId = id /\ dayKey(i) = d
            IN  Cardinality({d \in days : d <= day})]

\* The page renders the list GET /readings answered, for one of its users.
RenderTimeline(currentUser) ==
    /\ reply.route = "GET /readings"
    /\ reply.status = 200
    /\ reply' = [route |-> "renderTimeline", currentUser |-> currentUser,
                 readings |-> reply.items,
                 buttons |-> renderTimeline(reply.items, currentUser)]
    /\ UNCHANGED <<table, replaced, now, nextId, pc, req, reading, get>>

\* The user clicks the delete button of `id` and confirms every dialog: each
\* listener of the button sends one DELETE /readings/:id.
ClickDelete(id) ==
    /\ reply.route = "renderTimeline"
    /\ id \in DOMAIN reply.buttons
    /\ reply' = [route |-> "click", id |-> id, readings |-> reply.readings,
                 requests |-> reply.buttons[id]]
    /\ UNCHANGED <<table, replaced, now, nextId, pc, req, reading, get>>

\* floor(log2(num / den)) for num, den > 0.
RECURSIVE Log2Floor(_, _)
Log2Floor(num, den) ==
    IF num >= 2 * den THEN Log2Floor(num, 2 * den) + 1
    ELSE IF num < den THEN Log2Floor(2 * num, den) - 1
    ELSE 0

\* (x * 2^t) mod m
RECURSIVE TimesPow2Mod(_, _, _)
TimesPow2Mod(x, t, m) == IF t = 0 THEN x % m ELSE TimesPow2Mod((2 * x) % m, t - 1, m)

\* The sign of d - n/5000 for d the binary double nearest to n/5000 kWh
\* (n > 0): d is m * 2^(e - 52) for e the binary exponent of n/5000 and m
\* the integer nearest to N / 5000, N = n * 2^(52 - e), a tie going to the
\* even m.  The remainder of N by 10000 gives the remainder of N by 5000
\* and the parity of its quotient.
DoubleError(n) ==
    LET e  == Log2Floor(n, 5000)
        r2 == TimesPow2Mod(n, 52 - e, 10000)
        r  == r2 % 5000
    IN  IF r = 0 THEN 0
        ELSE IF r < 2500 THEN 0 - 1
        ELSE IF r > 2500 THEN 1
        ELSE IF r2 >= 5000 THEN 1 ELSE 0 - 1

\* n.toFixed(1) read back as a number, for n >= 0: the multiple of 0.1 kWh
\* (500 units) nearest to the double of n; when n lies halfway between two
\* of them, the side its double lies on decides, and the double being
\* exact, the larger.
ToFixed1(n) ==
    LET below == (n \div 500) * 500
        rem   == n % 500
    IN  IF rem < 250 THEN below
        ELSE IF rem > 250 THEN below + 500
        ELSE IF DoubleError(n) >= 0 THEN below + 500 ELSE below

\* The fetch of /latest-kwh rejects: there is no response.
FetchRejected == [route |-> "GET /latest-kwh", rejected |-> TRUE]

\* res.ok: there is a response and its status is in 200..299.
ResOk(res) == "status" \in DOMAIN res /\ res.status \in 200 .. 299

\* fetchLatestKWh, from the outcome of its fetch: the values it writes into
\* the fields "previous" and "current" of the form, '0.0' in both by the
\* catch block when the fetch rejects or the response is not ok.
fetchLatestKWh(res) ==
    IF ResOk(res)
    THEN LET latest    == parseNum(res.latestEndKWh)
             suggested == round1(latest + 500)
         IN  [prevKWh |-> ToFixed1(latest), currentKWh |-> ToFixed1(suggested)]
    ELSE [prevKWh |-> 0, currentKWh |-> 0]

\* The submit handler on the form with these two fields: whether the page
\* refuses (curr < prev), and the currentKWh it would send.
SubmitForm(prevKWh, currentKWh) ==
    LET prev == prevKWh
        curr == round1(currentKWh)
    IN  [refused |-> curr < prev, currentKWh |-> curr]

\* The form after fetchLatestKWh has run on the outcome res of its fetch.
FilledForm(res) ==
    LET form == fetchLatestKWh(res)
    IN  [route |-> "fetchLatestKWh", res |-> res,
         prevKWh |-> form.prevKWh, currentKWh |-> form.currentKWh,
         submit |-> SubmitForm(form.prevKWh, form.currentKWh)]

\* The page receives the answer of GET /latest-kwh, whatever its status, and
\* fills the form.
FetchLatestKWh ==
    /\ reply.route = "GET /latest-kwh"
    /\ reply' = FilledForm(reply)
    /\ UNCHANGED <<table, replaced, now, nextId, pc, req, reading, get>>

\* The fetch of the page rejects (no response arrives) and the page fills the
\* form.
FetchLatestKWhRejects ==
    /\ reply = NoReply
    /\ reply' = FilledForm(FetchRejected)
    /\ UNCHANGED <<table, replaced, now, nextId, pc, req, reading, get>>

-----------------------------------------------------------------------------
(* parseYearMonth on its own *)

\* Values of req.query.year: absent, 2024, 2025, 99, 0x7E9 (2025 in
\* hexadecimal), 275761 (beyond the range of Date) and text without digits.
YearStrings ==
    {Undefined, Str(<<"2", "0", "2", "4">>), Str(<<"2", "0", "2", "5">>),
     Str(<<"9", "9">>), Str(<<"0", "x", "7", "E", "9">>),
     Str(<<"2", "7", "5", "7", "6", "1">>), Str(<<"a", "b", "c">>)}

\* Values of req.query.month: absent, 0, 1, 2, 12, 13, 1.5, 12 after a tab,
\* 0x1 and text without digits.
MonthStrings ==
    {Undefined, Str(<<"0">>), Str(<<"1">>), Str(<<"2">>), Str(<<"1", "2">>),
     Str(<<"1", "3">>), Str(<<"1", ".", "5">>), Str(<<"\t", "1", "2">>),
     Str(<<"0", "x", "1">>), Str(<<"x">>)}

\* The service is up at one of the instants, the table empty.
InitYM ==
    /\ table = {}
    /\ replaced = {}
    /\ now \in Instants
    /\ nextId = 0
    /\ pc = [p \in Procs |-> "idle"]
    /\ req = [p \in Procs |-> NoRequest]
    /\ reading = [p \in Procs |-> NoRequest]
    /\ get = NoGet
    /\ reply = NoReply

\* A route calls parseYearMonth(req.query.year, req.query.month); the result
\* is kept with its arguments.
CallParseYearMonth(queryYear, queryMonth) ==
    /\ reply = NoReply
    /\ reply' = [route |-> "parseYearMonth", queryYear |-> queryYear,
                 queryMonth |-> queryMonth, result |-> parseYearMonth(queryYear, queryMonth)]
    /\ UNCHANGED <<table, replaced, now, nextId, pc, req, reading, get>>

-----------------------------------------------------------------------------
(* Specifications *)

\* The steps of the POST /readings requests in the slots P, the requests
\* carrying a cookie of C and a body of B.
PostSteps(P, C, B) ==
    \/ \E p \in P, c \in C, b \in B : PostReadings(p, c, b)
    \/ \E p \in P, c \in C, b \in B : PostReadingsQueryFails(p, c, b)
    \/ \E p \in P : BuildReading(p)
    \/ \E p \in P : PutReading(p)
    \/ \E p \in P : UpdateMonthly(p)
    \/ \E p \in P : StoreFails(p)

\* Concurrent submissions of readings, and the reads of the latest value.
Next ==
    \/ PostSteps(Procs, PostCookies, PlainBodies)
    \/ \E c \in Cookies : GetLatestKWh(c)
    \/ Tick
    \/ Deliver

Spec == Init /\ [][Next]_vars

\* A reading that an earlier invocation stored, a day before the run starts:
\* alice's first, from 0 to 10.0 kWh.
EarlierReading ==
    NewReading(<<"uuid", 0>>, "alice", 0, 50000, DeltaKWh(0, 50000), Str(""),
               StartTime - TicksPerDay)

\* The module is loaded while the table holds that reading and the
\* aggregate row its handler wrote.
InitRace ==
    /\ table = LET parts == ymKeyParts(EarlierReading.timestamp)
               IN  {EarlierReading,
                    [washId |-> AggId("alice", parts.ym),
                     totalKWh |-> EarlierReading.deltaKWh,
                     username |-> "alice", period |-> parts.ym,
                     GlobalPK |-> AccountPK("alice"),
                     timestamp |-> parts.monthStartTs,
                     updatedAt |-> EarlierReading.timestamp]}
    /\ replaced = {}
    /\ now = StartTime
    /\ nextId = 0
    /\ pc = [p \in Procs |-> "idle"]
    /\ req = [p \in Procs |-> NoRequest]
    /\ reading = [p \in Procs |-> NoRequest]
    /\ get = NoGet
    /\ reply = NoReply

\* Concurrent submissions of readings to a table that holds a reading.
NextRace ==
    \/ PostSteps(Procs, PostCookies, PlainBodies)
    \/ Tick
    \/ Deliver

SpecRace == InitRace /\ [][NextRace]_vars

\* All the routes, the submissions of readings running one after another: a
\* submission arrives only when the one before it was answered.
NextSeq ==
    \/ \E c \in Cookies, r \in Routes : Unauthenticated(c, r)
    \/ PostSteps({1}, OneClient, PlainBodies)
    \/ \E c \in Cookies : GetUsername(c)
    \/ \E c \in Cookies, y \in YearQueries, m \in MonthQueries : GetReadings(c, y, m)
    \/ AnswerReadings
    \/ \E c \in Cookies : GetLatestKWh(c)
    \/ \E c \in Cookies, u \in AccountParams, y \in YearQueries, m \in MonthQueries :
          GetAccountSummary(c, u, y, m)
    \/ AnswerSummary
    \/ \E c \in Cookies, r \in StoreRoutes : GetFails(c, r)
    \/ \E c \in Cookies : \E r \in Unrouted : StaticOrCatchAll(c, r)
    \/ Tick
    \/ Deliver

SpecSeq == Init /\ [][NextSeq]_vars

\* Concurrent submissions of readings, no operation of the table failing.
NextRollup ==
    \/ \E p \in Procs, c \in PostCookies, b \in PlainBodies : PostReadings(p, c, b)
    \/ \E p \in Procs : BuildReading(p)
    \/ \E p \in Procs : PutReading(p)
    \/ \E p \in Procs : UpdateMonthly(p)
    \/ Tick
    \/ Deliver

SpecRollup == Init /\ [][NextRollup]_vars

\* The form of the page: the submissions of one client, one after another
\* and with or without forUsername, the read of the latest value and the
\* page filling the form from it.
NextForm ==
    \/ PostSteps({1}, OneClient, Bodies)
    \/ \E c \in Cookies : GetLatestKWh(c)
    \/ \E c \in Cookies : Unauthenticated(c, "GET /latest-kwh")
    \/ \E c \in Cookies : GetFails(c, "GET /latest-kwh")
    \/ FetchLatestKWh
    \/ FetchLatestKWhRejects
    \/ Tick
    \/ Deliver

SpecForm == Init /\ [][NextForm]_vars

\* The timeline of the page: submissions one after another, the list of
\* the readings of the current year, the page rendering it and a click on a
\* delete button.
NextTimeline ==
    \/ PostSteps({1}, OneClient, PlainBodies)
    \/ \E c \in Cookies : GetReadings(c, Undefined, Undefined)
    \/ AnswerReadings
    \/ \E u \in CurrentUsers : RenderTimeline(u)
    \/ \E id \in {i.washId : i \in table} : ClickDelete(id)
    \/ Tick
    \/ Deliver

SpecTimeline == Init /\ [][NextTimeline]_vars

\* The page aggregating a list of readings.
NextClient ==
    \/ RenderSummaries
    \/ Deliver

SpecClient == InitClient /\ [][NextClient]_vars

\* The calls of parseYearMonth.
NextYM ==
    \/ \E y \in YearStrings, m \in MonthStrings : CallParseYearMonth(y, m)
    \/ Deliver

SpecYM == InitYM /\ [][NextYM]_vars

-----------------------------------------------------------------------------
(* Properties *)

\* The endKWh of the stored readings of greatest timestamp; 0 for no reading.
LatestEnds ==
    IF Readings = {} THEN {0}
    ELSE {r.endKWh : r \in {x \in Readings : ~\E o \in Readings : o.timestamp > x.timestamp}}

\* Slot p's request arrives in this step, is valid, and its query is answered.
Queried(p) == pc[p] = "idle" /\ pc'[p] = "resume"

\* Slot p's request is accepted in this step: its reading is built and sent.
Accepted(p) == pc[p] = "resume" /\ pc'[p] = "put"

\* Slot p's request is refused in this step for its delta.
Refused(p) == pc[p] = "resume" /\ pc'[p] = "idle"

\* Slot p's reading is inserted in this step.
Inserted(p) == pc[p] = "put" /\ pc'[p] = "aggregate"

\* C1, as stated: the startKWh of every reading inserted by POST /readings is
\* the endKWh of the stored reading of greatest timestamp in the table just
\* before the insert, or 0 if the table held no reading then.
C1_StartIsLatestAtInsert ==
    [][\A p \in Procs : Inserted(p) => reading[p].startKWh \in LatestEnds]_vars

\* C1, amended: the startKWh of every reading built by POST /readings is the
\* endKWh of the reading the index returned to the query of its handler, a
\* reading that was stored at the moment of the query, whoever created it,
\* or 0 when the index returned none; the request body does not enter it,
\* and the reading is inserted as it was built.
C1_StartIsLatestAtQuery ==
    [][\A p \in Procs :
          /\ Queried(p) => req'[p].Items \in {<< >>} \cup {<<r>> : r \in Readings}
          /\ Accepted(p) =>
                reading'[p].startKWh =
                    IF req[p].Items = << >> THEN 0 ELSE req[p].Items[1].endKWh
          /\ Inserted(p) => reading[p] \in table']_vars

\* C1's case: a stored reading of one principal starts at the endKWh of an
\* earlier stored reading of another principal.
C1_Witness ==
    \E r1, r2 \in Readings :
        /\ r1.username # r2.username
        /\ r1.timestamp < r2.timestamp
        /\ r2.startKWh = r1.endKWh
        /\ r2.startKWh > 0

\* d is x rounded to 3 decimals: a multiple of 0.001 kWh (5 units) at most
\* 0.0005 kWh (2.5 units) from x.
IsRounded3(d, x) == d % 5 = 0 /\ 2 * (d - x) <= 5 /\ 2 * (x - d) <= 5

\* C2: every reading built or stored by POST /readings has endKWh equal to
\* the submitted currentKWh, deltaKWh equal to endKWh - startKWh rounded to 3
\* decimals, and deltaKWh > 0.
C2_EndAndDelta ==
    /\ [](\A r \in Readings : IsRounded3(r.deltaKWh, r.endKWh - r.startKWh) /\ r.deltaKWh > 0)
    /\ [][\A p \in Procs :
            /\ Queried(p) => \A c \in PostCookies, b \in Bodies :
                  PostReadings(p, c, b) => req'[p].body.currentKWh = b.currentKWh
            /\ Accepted(p) =>
                  /\ reading'[p].endKWh = req[p].body.currentKWh.v
                  /\ IsRounded3(reading'[p].deltaKWh, reading'[p].endKWh - reading'[p].startKWh)
                  /\ reading'[p].deltaKWh > 0
            /\ Inserted(p) => reading[p] \in table']_vars

\* C2's case: a stored reading whose deltaKWh is not the exact difference.
C2_Witness ==
    \E r \in Readings : r.deltaKWh # r.endKWh - r.startKWh /\ r.startKWh > 0

\* C3: a submission whose currentKWh is at most the latest endKWh gets 400
\* and writes nothing: the table (readings and aggregates) is unchanged and
\* the request is over.  The submissions run one after another, so the
\* latest endKWh is the same from the arrival of the request to its answer.
C3_NotAboveLatestRefused ==
    [][(Accepted(1) \/ Refused(1)) =>
          ((\A e \in LatestEnds : req[1].body.currentKWh.v <= e) =>
              /\ Refused(1)
              /\ reply'.route = "POST /readings"
              /\ reply'.status = 400
              /\ table' = table)]_vars

\* The stored readings created just before r.
Prev(r) ==
    {o \in Readings :
        /\ o.timestamp < r.timestamp
        /\ \A m \in Readings : m.timestamp < r.timestamp => m.timestamp <= o.timestamp}

\* The stored readings form a chain in creation order.
Chain ==
    \A r \in Readings :
        /\ \A o \in Readings : o # r => o.timestamp # r.timestamp
        /\ IF Prev(r) = {} THEN r.startKWh = 0
           ELSE \A o \in Prev(r) : r.startKWh = o.endKWh
        /\ \A o \in Readings : o.timestamp < r.timestamp => o.endKWh < r.endKWh

\* C4: when the requests of POST /readings run one after another from an
\* empty table, the stored readings form a chain (the first starts at 0, each
\* later one starts at the endKWh of the one before, and endKWh strictly
\* increases in creation order), and a refused submission leaves the stored
\* readings as they were.
C4_SequentialChain ==
    /\ []Chain
    /\ [][(reply'.route = "POST /readings" /\ reply'.status = 400) => Readings' = Readings]_vars

\* C5: nothing in POST /readings prevents or detects two requests that read
\* the same last reading: every insert adds the reading as it was built,
\* whatever the table holds by then, and reports no error.
C5_InsertUnconditional ==
    [][\A p \in Procs : Inserted(p) =>
          /\ table' = table \cup {reading[p]}
          /\ reply' = NoReply]_vars

\* C5's case: two requests are being handled at the same time, both have
\* passed the delta check and both have inserted their reading, neither has
\* answered yet; both readings start at the endKWh of the same reading, the
\* one stored before either of them, so that their meter ranges overlap.
C5_Witness ==
    /\ pc[1] = "aggregate" /\ pc[2] = "aggregate"
    /\ reading[1] # reading[2]
    /\ {reading[1], reading[2]} \subseteq Readings
    /\ \E last \in Readings \ {reading[1], reading[2]} :
          /\ last.endKWh > 0
          /\ \A p \in Procs :
                /\ last.timestamp < reading[p].timestamp
                /\ reading[p].startKWh = last.endKWh
                /\ reading[p].endKWh > reading[p].startKWh

\* forUsername names somebody: it is a string that is not blank.
NonBlank(f) == f.t = "string" /\ f.v \notin {"", " "}

\* C6: a reading created by principal P with a non-blank forUsername F other
\* than P is persisted with createdBy = P, ownerUsername = F and onBehalf = true.
C6_OnBehalfPersisted ==
    [][\A p \in Procs : Accepted(p) =>
          LET b == req[p].body
              P == req[p].username
              r == reading'[p]
          IN  (NonBlank(b.forUsername) /\ b.forUsername.v # P) =>
                 /\ {"createdBy", "ownerUsername", "onBehalf"} \subseteq DOMAIN r
                 /\ r.createdBy = P
                 /\ r.ownerUsername = b.forUsername.v
                 /\ r.onBehalf = TRUE]_vars

\* C7: every reading created by POST /readings has createdBy equal to the
\* principal of the request, onBehalf true exactly when ownerUsername differs
\* from createdBy, and, when forUsername is absent, blank or the principal,
\* ownerUsername equal to the principal and onBehalf false.
C7_CreatedByAndOwner ==
    [][\A p \in Procs : Accepted(p) =>
          LET b    == req[p].body
              P    == req[p].username
              r    == reading'[p]
              self == ~NonBlank(b.forUsername) \/ b.forUsername.v = P
          IN  /\ {"createdBy", "ownerUsername", "onBehalf"} \subseteq DOMAIN r
              /\ r.createdBy = P
              /\ r.onBehalf <=> (r.ownerUsername # r.createdBy)
              /\ self => (r.ownerUsername = P /\ ~r.onBehalf)]_vars

\* The response about to be sent answers DELETE /readings/:id.
DeleteAnswered ==
    /\ reply'.route = "*"
    /\ "method" \in DOMAIN reply'
    /\ reply'.method = "DELETE"
    /\ "id" \in DOMAIN reply'.path

\* C8: DELETE /readings/:id by a principal who is not the creator of the
\* stored reading is answered 403 and leaves the reading as it was.
C8_DeleteByOtherRefused ==
    [][DeleteAnswered =>
          \A r \in Readings :
             (r.washId = reply'.path.id /\ ~Mine(r, reply'.username))
             => (reply'.status = 403 /\ r \in table')]_vars

\* C9: DELETE /readings/:id by the creator of the stored reading is answered
\* 204 and removes the reading; a delete of an id that is not stored is not
\* answered 204.
C9_DeleteByCreator ==
    [][DeleteAnswered =>
          /\ \A r \in Readings :
                (r.washId = reply'.path.id /\ Mine(r, reply'.username))
                => (reply'.status = 204 /\ r \notin table')
          /\ (\A r \in Readings : r.washId # reply'.path.id) => reply'.status # 204]_vars

\* C10: GET /readings?year=Y&month=M returns exactly the stored readings
\* whose timestamp t has start(Y, M) <= t < start(Y, M + 1).
C10_HalfOpenWindow ==
    (/\ reply.route = "GET /readings"
     /\ reply.status = 200
     /\ reply.year # Undefined
     /\ reply.month # Undefined
     /\ ParseInt(reply.month).v \in 1 .. 12)
    => LET Y == ParseInt(reply.year).v
           M == ParseInt(reply.month).v
       IN  {reply.items[i] : i \in DOMAIN reply.items} =
             {r \in Readings : DateUTC(Y, M - 1) <= r.timestamp /\ r.timestamp < DateUTC(Y, M)}

\* The text s is an integer: digits only, after an optional sign.
IsIntegerText(q) ==
    /\ q # Undefined
    /\ LET s == q.v
           d == IF Len(s) > 0 /\ s[1] \in {"-", "+"} THEN Tail(s) ELSE s
       IN  Len(d) > 0 /\ \A i \in 1 .. Len(d) : d[i] \in Digits

\* The integer an integer text denotes.
RECURSIVE Decimal(_)
Decimal(d) == IF d = << >> THEN 0 ELSE 10 * Decimal(SubSeq(d, 1, Len(d) - 1)) + DigitVal(d[Len(d)])

IntegerOf(q) ==
    LET s == q.v
    IN  IF s[1] = "-" THEN 0 - Decimal(Tail(s))
        ELSE IF s[1] = "+" THEN Decimal(Tail(s)) ELSE Decimal(s)

\* The first instant of UTC calendar month m (1..12) of year y.
MonthStart(y, m) == DaysFromCivil(y, m) * TicksPerDay

\* The UTC calendar year the instant t lies in.
YearOf(t) == CHOOSE y \in 1970 .. 2100 : MonthStart(y, 1) <= t /\ t < MonthStart(y + 1, 1)

\* C11: parseYearMonth(year, month) returns, for a month in 1..12, the first
\* instant of that UTC calendar month of the year and the first instant of
\* the month after it (January of year + 1 after December); for a month that
\* is absent, not an integer or outside 1..12, the first instants of the year
\* and of year + 1; the year is the current UTC year when it is absent or
\* not an integer.
C11_Window ==
    reply.route = "parseYearMonth" =>
        LET Y == IF IsIntegerText(reply.queryYear) THEN IntegerOf(reply.queryYear)
                 ELSE YearOf(now)
            valid == IsIntegerText(reply.queryMonth) /\ IntegerOf(reply.queryMonth) \in 1 .. 12
            M == IF valid THEN IntegerOf(reply.queryMonth) ELSE 1
        IN  /\ reply.result.year = Y
            /\ reply.result.startTimestamp = MonthStart(Y, M)
            /\ reply.result.endTimestamp =
                  IF valid /\ M < 12 THEN MonthStart(Y, M + 1) ELSE MonthStart(Y + 1, 1)

\* The cookie is missing, is not a string, or decodes to something that is
\* not an object.
BadCookie(c) == c.t # "string" \/ c.payload.t # "object"

BadCookies == {c \in Cookies : BadCookie(c)}

\* A route's handler runs for a request that carries cookie c; each route is
\* looked at in the steps that leave its mark: its response, or its handler
\* awaiting the store.
RouteRuns(c) ==
    \/ /\ reply'.route = "POST /readings" \/ \E p \in Procs : Queried(p)
       /\ \E p \in Procs, b \in Bodies :
             PostReadings(p, c, b) \/ PostReadingsQueryFails(p, c, b)
    \/ /\ reply'.route = "GET /username"
       /\ GetUsername(c)
    \/ /\ get'.route = "GET /readings"
       /\ \E y \in YearQueries, m \in MonthQueries : GetReadings(c, y, m)
    \/ /\ reply'.route = "GET /latest-kwh"
       /\ GetLatestKWh(c)
    \/ /\ get'.route = "GET /accounts/:username/summary"
       /\ \E u \in AccountParams, y \in YearQueries, m \in MonthQueries :
             GetAccountSummary(c, u, y, m)
    \/ /\ reply'.route \in StoreRoutes
       /\ \E r \in StoreRoutes : GetFails(c, r)
    \/ /\ reply'.route = "*"
       /\ \E r \in Unrouted : StaticOrCatchAll(c, r)

\* C12: a request on any route whose CF_Authorization cookie is missing, not
\* a string or decodes to a non-object is answered 401 and no route handler
\* runs for it: the table, the clock, the ids and the requests in progress
\* are as before.
C12_UnauthenticatedRefused ==
    [][\A c \in BadCookies :
          /\ ~RouteRuns(c)
          /\ \A r \in Routes : Unauthenticated(c, r) =>
                /\ reply' = [route |-> r, status |-> 401]
                /\ UNCHANGED <<table, replaced, now, nextId, pc, req, reading, get>>]_vars

\* C12's case: a 401 for a submission while readings are stored.
C12_Witness ==
    /\ reply.route = "POST /readings"
    /\ reply.status = 401
    /\ Readings # {}

\* C13: when no submission is in progress, GET /latest-kwh returns the
\* endKWh of a stored reading of greatest timestamp, or 0 when no reading is
\* stored; the values a POST /readings handled in the same state can take as
\* startKWh are those same values, and on one answer of the index both
\* handlers read the same value.
C13_LatestKWh ==
    (\A p \in Procs : pc[p] = "idle") =>
        /\ (reply.route = "GET /latest-kwh" /\ reply.status = 200)
              => reply.latestEndKWh \in LatestEnds
        /\ {StartKWh(items) : items \in QueryLastItems} = LatestEnds
        /\ \A items \in QueryLastItems : LatestEndKWh(items) = StartKWh(items)

\* The sum of field f over the items of S.
RECURSIVE SumOver(_, _)
SumOver(S, f) ==
    IF S = {} THEN 0
    ELSE LET x == CHOOSE i \in S : TRUE IN x[f] + SumOver(S \ {x}, f)

\* The owners and the UTC year-months of a run.
Owners == {"alice", "bob", "unknown"}
Periods == {<<y, m>> : y \in 2024 .. 2025, m \in 1 .. 12}

\* The instant t lies in the UTC month ym.
InMonth(t, ym) ==
    /\ MonthStart(ym[1], ym[2]) <= t
    /\ t < (IF ym[2] = 12 THEN MonthStart(ym[1] + 1, 1) ELSE MonthStart(ym[1], ym[2] + 1))

\* The stored readings of owner u in the month ym.
ReadingsOf(u, ym) == {r \in Readings : Owner(r) = u /\ InMonth(r.timestamp, ym)}

\* The rows of the monthly aggregate of owner u for the month ym.
AggregateRows(u, ym) == {i \in table : i.GlobalPK = AccountPK(u) /\ i.period = ym}

\* C14: when no POST /readings is in progress and no operation of the table
\* has failed, for every owner and UTC year-month the totalKWh of the monthly
\* aggregate (0 for no row) is the sum of deltaKWh over the stored readings of
\* that owner in that month, however the requests interleaved.
C14_AggregateIsSum ==
    (\A p \in Procs : pc[p] = "idle") =>
        /\ \A i \in table \ Readings : i.username \in Owners /\ i.period \in Periods
        /\ \A u \in Owners, ym \in Periods :
              /\ Cardinality(AggregateRows(u, ym)) <= 1
              /\ SumOver(AggregateRows(u, ym), "totalKWh") = SumOver(ReadingsOf(u, ym), "deltaKWh")

\* C14's case: no request in progress, an aggregate that sums two readings.
C14_Witness ==
    /\ \A p \in Procs : pc[p] = "idle"
    /\ \E u \in Owners, ym \in Periods :
          /\ Cardinality(ReadingsOf(u, ym)) = 2
          /\ AggregateRows(u, ym) # {}

\* The UTC year-month the instant t lies in.
PeriodOf(t) == CHOOSE ym \in Periods : InMonth(t, ym)

\* C15: the insert and the aggregate update of one POST /readings are two
\* operations of the table.  A request that has inserted its reading ends
\* either with the aggregate of its owner and month increased by its deltaKWh
\* and the answer 201, or, the update failing, with the aggregate rows as
\* they were and the answer 500; the reading is stored in both cases.
C15_InsertThenAggregate ==
    [][\A p \in Procs : (pc[p] = "aggregate" /\ pc'[p] = "idle") =>
          LET r     == reading[p]
              u     == Owner(r)
              ym    == PeriodOf(r.timestamp)
              after == {i \in table' : i.GlobalPK = AccountPK(u) /\ i.period = ym}
          IN  /\ r \in table'
              /\ reply'.route = "POST /readings"
              /\ \/ /\ reply'.status = 201
                    /\ SumOver(after, "totalKWh") =
                          SumOver(AggregateRows(u, ym), "totalKWh") + r.deltaKWh
                 \/ /\ reply'.status = 500
                    /\ table' = table]_vars

\* C15's case: the update failed: a 500, the reading stored, and no aggregate
\* row for its owner and month.
C15_Witness ==
    /\ reply.route = "POST /readings"
    /\ reply.status = 500
    /\ \A p \in Procs : pc[p] = "idle"
    /\ \E r \in Readings : AggregateRows(Owner(r), PeriodOf(r.timestamp)) = {}

\* The arithmetic sum of deltaKWh over the readings at the indexes I.
RECURSIVE SumDelta(_, _)
SumDelta(readings, I) ==
    IF I = {} THEN 0
    ELSE LET i == CHOOSE k \in I : TRUE
         IN  readings[i].deltaKWh + SumDelta(readings, I \ {i})

\* C16: the totals the page computes over a list of readings (totalKWh and
\* the per-owner kWh of aggregateYear, the per-owner sums of the monthly and
\* yearly summaries) are the arithmetic sums of the stored deltaKWh of the
\* readings of the group.
C16_TotalsAreSums ==
    reply.route = "render" =>
        LET rs    == reply.readings
            of(u) == {i \in DOMAIN rs : UserOf(rs[i]) = u}
        IN  /\ reply.agg.totalKWh = SumDelta(rs, DOMAIN rs)
            /\ \A u \in DOMAIN reply.agg.byUser : reply.agg.byUser[u].kWh = SumDelta(rs, of(u))
            /\ \A u \in DOMAIN reply.byUser : reply.byUser[u].sum = SumDelta(rs, of(u))

\* A currentKWh that is not a number, not finite or not above zero.
BadKWh(k) == k.t # "number" \/ ~k.fin \/ k.v <= 0

\* C17: a POST /readings whose currentKWh is not a number, not finite or not
\* above zero is answered 400 with the validation message before the store is
\* queried: the request reads nothing (so the query cannot fail for it),
\* inserts no reading and updates no aggregate.
C17_InvalidRefusedFirst ==
    [][\A p \in Procs : (FirstFree(p) /\ (reply'.route = "POST /readings" \/ Queried(p))) =>
          \A c \in PostCookies, b \in Bodies : BadKWh(b.currentKWh) =>
              /\ ~PostReadingsQueryFails(p, c, b)
              /\ PostReadings(p, c, b) =>
                    /\ DOMAIN reply' = {"route", "status", "currentKWh"}
                    /\ reply'.status = 400
                    /\ reply'.currentKWh = b.currentKWh
                    /\ UNCHANGED <<table, replaced, now, nextId, pc, req, reading, get>>]_vars

\* An invalid currentKWh has been refused while readings are stored.
C17_Witness ==
    /\ reply.route = "POST /readings"
    /\ reply.status = 400
    /\ "currentKWh" \in DOMAIN reply
    /\ BadKWh(reply.currentKWh)
    /\ Readings # {}

\* The years a request that has been answered can have selected: the one it
\* names, else the UTC year of its arrival, which is not after now.
SelectedYears(q) ==
    IF IsIntegerText(q) THEN {IntegerOf(q)} ELSE YearOf(StartTime) .. YearOf(now)

\* C18: the answer of GET /accounts/:username/summary carries as period the
\* UTC year-month the start of the requested window lies in, January of the
\* selected year when the month is absent or not in 1..12, and as totalKWh
\* the totalKWh of the aggregate row stored for the account and that period,
\* 0 when there is no such row.
C18_SummaryOfPeriod ==
    (reply.route = "GET /accounts/:username/summary" /\ reply.status = 200) =>
        LET M == IF IsIntegerText(reply.month) /\ IntegerOf(reply.month) \in 1 .. 12
                 THEN IntegerOf(reply.month) ELSE 1
        IN  /\ reply.period \in {<<Y, M>> : Y \in SelectedYears(reply.year)}
            /\ Cardinality(AggregateRows(reply.username, reply.period)) <= 1
            /\ reply.totalKWh = SumOver(AggregateRows(reply.username, reply.period), "totalKWh")

\* C19: no two stored readings have the same timestamp, so the stored
\* readings are totally ordered by timestamp and the query for the most
\* recent reading has one possible answer.
C19_DistinctTimestamps ==
    /\ \A r1, r2 \in Readings : r1 # r2 => r1.timestamp # r2.timestamp
    /\ Cardinality(LastItems(Readings)) = 1

\* C20: a stored reading is never changed or removed by the service: every
\* step leaves each stored reading in the table with all its attributes (id,
\* startKWh, endKWh, deltaKWh, timestamp among them), and a reading a step
\* adds has an id no item of the table had before.
C20_ReadingsImmutable ==
    [][/\ \A r \in Readings : r \in table'
       /\ \A r \in {i \in table' : i.GlobalPK = AllReadingsPK} \ Readings :
             \A i \in table : i.washId # r.washId]_vars

\* Two readings and an aggregate row are stored: the second insert and an
\* aggregate update have acted on a table that held a reading.
C20_Witness ==
    /\ Cardinality(Readings) = 2
    /\ table \ Readings # {}
    /\ \E r1, r2 \in Readings : r1.timestamp < r2.timestamp

\* The sum of the values of the function f over the subset D of its domain.
RECURSIVE SumFn(_, _)
SumFn(f, D) ==
    IF D = {} THEN 0
    ELSE LET x == CHOOSE k \in D : TRUE IN f[x] + SumFn(f, D \ {x})

\* The reading r names somebody in its field f: the field is there and is
\* not the empty string.
Names(r, f) == f \in DOMAIN r /\ r[f] # ""

\* The owner group of a reading: the ownerUsername it names, else the
\* username it names, else the sentinel label.
GroupOf(r) ==
    CASE Names(r, "ownerUsername") -> r.ownerUsername
      [] ~Names(r, "ownerUsername") /\ Names(r, "username") -> r.username
      [] OTHER -> "Unbekannt"

\* C21: aggregateYear puts every reading in exactly one owner group: the
\* groups are the owner labels of the readings, each group counts the
\* readings of its label, the counts add up to totalCount, which is the
\* number of readings; for every owner the values of byMonthUser over the 12
\* UTC months add up to the kWh of the owner; min <= max in every group; and
\* for no readings the total, the count and the average are 0 and there is no
\* first or last date.
C21_Groups ==
    reply.route = "render" =>
        LET rs  == reply.readings
            agg == reply.agg
            bm  == agg.byMonthUser
            monthly(u) == [m \in 1 .. 12 |->
                              IF m \in DOMAIN bm /\ u \in DOMAIN bm[m] THEN bm[m][u] ELSE 0]
        IN  /\ DOMAIN agg.byUser = {GroupOf(rs[i]) : i \in DOMAIN rs}
            /\ \A u \in DOMAIN agg.byUser :
                  /\ agg.byUser[u].count = Cardinality({i \in DOMAIN rs : GroupOf(rs[i]) = u})
                  /\ SumFn(monthly(u), 1 .. 12) = agg.byUser[u].kWh
                  /\ agg.byUser[u].min <= agg.byUser[u].max
            /\ SumFn([u \in DOMAIN agg.byUser |-> agg.byUser[u].count], DOMAIN agg.byUser)
                  = agg.totalCount
            /\ agg.totalCount = Len(rs)
            /\ \A m \in DOMAIN bm : m \in 1 .. 12 /\ DOMAIN bm[m] \subseteq DOMAIN agg.byUser
            /\ rs = << >> =>
                  /\ agg.totalKWh = 0 /\ agg.totalCount = 0 /\ agg.avgPerReading = 0
                  /\ agg.firstDate = Null /\ agg.lastDate = Null

\* Two readings of different months were aggregated, one recorded by alice
\* for bob and one that names nobody: the groups are bob, by the
\* ownerUsername, and the sentinel label.
C21_Witness ==
    /\ reply.route = "render"
    /\ Len(reply.readings) = 2
    /\ \E i, j \in DOMAIN reply.readings :
          /\ Names(reply.readings[i], "ownerUsername")
          /\ Names(reply.readings[i], "username")
          /\ reply.readings[i].ownerUsername # reply.readings[i].username
          /\ ~Names(reply.readings[j], "ownerUsername")
          /\ ~Names(reply.readings[j], "username")
    /\ DOMAIN reply.agg.byUser = {"bob", "Unbekannt"}
    /\ Cardinality(DOMAIN reply.agg.byMonthUser) = 2
    /\ reply.agg.totalKWh > 0

\* C22, as stated: a submission with a finite currentKWh > 0 that is above
\* the latest endKWh by any amount is accepted: the handler, whose query was
\* answered with the latest reading, builds its reading and sends the insert
\* instead of answering 400.
C22_AnyIncreaseAccepted ==
    [][(/\ Accepted(1) \/ Refused(1)
        /\ req[1].Items \in LastItems(Readings)
        /\ \A e \in LatestEnds : req[1].body.currentKWh.v > e)
       => Accepted(1) /\ reading'[1].endKWh = req[1].body.currentKWh.v]_vars

\* C22, amended: a submission with a finite currentKWh > 0 that is above the
\* endKWh its query returned (the latest endKWh when the index answers with
\* the latest reading) by more than 0.0005 kWh, a difference that rounds to
\* 0.001 or more, is accepted: the handler builds its reading and sends the
\* insert; the insert stores the reading, and the aggregate update
\* succeeding, the answer is 201 with the reading, which is in the table.
C22_IncreaseAccepted ==
    [][\A p \in Procs :
          /\ (Accepted(p) \/ Refused(p)) =>
                LET cur == req[p].body.currentKWh.v
                    got == IF req[p].Items = << >> THEN 0 ELSE req[p].Items[1].endKWh
                IN  /\ 2 * (cur - got) > 5 => Accepted(p) /\ reading'[p].endKWh = cur
                    /\ (req[p].Items \in LastItems(Readings) /\ 2 * (cur - got) > 5)
                          => reading'[p].startKWh \in LatestEnds
          /\ Inserted(p) => reading[p] \in table'
          /\ (pc[p] = "aggregate" /\ pc'[p] = "idle" /\ table' # table) =>
                /\ reply' = PostReply(201, [reading |-> reading[p]])
                /\ reading[p] \in table']_vars

\* A reading that ends less than 0.002 kWh above the one before it was
\* stored and answered 201.
C22_Witness ==
    /\ reply.route = "POST /readings"
    /\ reply.status = 201
    /\ reply.reading \in table
    /\ reply.reading.startKWh > 0
    /\ reply.reading.endKWh - reply.reading.startKWh < 10

\* The values GET /latest-kwh returns for the table T when the index holds
\* all of it.
LatestEndsIn(T) ==
    LET R == {i \in T : i.GlobalPK = AllReadingsPK}
    IN  IF R = {} THEN {0}
        ELSE {r.endKWh : r \in {x \in R : ~\E o \in R : o.timestamp > x.timestamp}}

\* C23, as stated: however the POST /readings requests interleave, the value
\* of GET /latest-kwh never decreases, and every reading at the moment it is
\* inserted has an endKWh above the endKWh of every stored reading with a
\* smaller timestamp.
C23_LatestNeverDecreases ==
    [][/\ \A e \in LatestEndsIn(table), f \in LatestEndsIn(table') : e <= f
       /\ \A p \in Procs : Inserted(p) =>
             \A r \in Readings : r.timestamp < reading[p].timestamp =>
                 r.endKWh < reading[p].endKWh]_vars

\* C23, amended: every stored reading ends above its startKWh, which is 0 or
\* the endKWh of another stored reading, one that is not younger: the reading
\* the index returned to its handler, not necessarily the most recent one.
\* Every reading is inserted as it was built.
C23_AboveReadingAtQuery ==
    /\ [](\A r \in Readings :
            /\ r.endKWh > r.startKWh
            /\ \/ r.startKWh = 0
               \/ \E o \in Readings \ {r} :
                     o.endKWh = r.startKWh /\ o.timestamp <= r.timestamp)
    /\ [][\A p \in Procs : Inserted(p) => reading[p] \in table']_vars

\* A reading is stored that starts at the end of a reading that is not
\* younger and ends above it.
C23_Witness ==
    \E r, o \in Readings :
        /\ o.timestamp <= r.timestamp
        /\ r.startKWh = o.endKWh
        /\ r.startKWh > 0
        /\ r.endKWh > o.endKWh

\* C24: in every reachable state the sum of deltaKWh over the stored
\* readings is the endKWh of the most recent reading, 0 for an empty table.
C24_DeltasAddUpToMeter ==
    \A e \in LatestEnds : SumOver(Readings, "deltaKWh") = e

\* C25: when the submissions run one after another, a submission of the
\* currentKWh of the reading inserted last (whether that request was answered
\* 201 or, its aggregate update failing, 500) is answered 400 and writes
\* nothing; so no two stored readings have the same endKWh.
C25_RetryRefused ==
    /\ [](\A r1, r2 \in Readings : r1 # r2 => r1.endKWh # r2.endKWh)
    /\ [][(/\ Accepted(1) \/ Refused(1)
           /\ Readings # {}
           /\ req[1].body.currentKWh.v \in LatestEnds)
          => /\ Refused(1)
             /\ reply'.route = "POST /readings"
             /\ reply'.status = 400
             /\ reply'.endKWh = req[1].body.currentKWh.v
             /\ reply'.startKWh = req[1].body.currentKWh.v
             /\ UNCHANGED <<table, nextId>>]_vars

\* C26: in every reachable state, requests in progress, failed operations
\* of the table and overlapping submissions included, the totalKWh of the
\* monthly aggregate of an owner and UTC year-month (0 for no row) is at most
\* the sum of deltaKWh over the stored readings of that owner in that month:
\* no deltaKWh is negative, and every aggregate row is the only one of its
\* owner and month and holds at most that sum.
C26_AggregateAtMostSum ==
    /\ \A r \in Readings : r.deltaKWh >= 0
    /\ \A i \in table \ Readings :
          /\ i.username \in Owners /\ i.period \in Periods
          /\ AggregateRows(i.username, i.period) = {i}
          /\ i.totalKWh <= SumOver(ReadingsOf(i.username, i.period), "deltaKWh")

\* No request is in progress and an aggregate row holds less than the
\* readings of its owner and month add up to: one update succeeded, one failed.
C26_Witness ==
    /\ \A p \in Procs : pc[p] = "idle"
    /\ \E u \in Owners, ym \in Periods :
          /\ AggregateRows(u, ym) # {}
          /\ Cardinality(ReadingsOf(u, ym)) = 2
          /\ SumOver(AggregateRows(u, ym), "totalKWh") < SumOver(ReadingsOf(u, ym), "deltaKWh")

\* The rows of the monthly aggregates: the items that carry a totalKWh.
AggregateItems == {i \in table : "totalKWh" \in DOMAIN i}

\* C27: the rows of the monthly aggregates, stored in the table of the
\* readings, are never returned as readings: the list GET /readings answers
\* holds stored readings only, and the query for the last reading, which POST
\* /readings and GET /latest-kwh send, never returns an aggregate row,
\* whatever the names of the principals the rows belong to.
C27_AggregatesAreNotReadings ==
    /\ \A i \in AggregateItems : i.GlobalPK # AllReadingsPK
    /\ \A items \in QueryLastItems : \A k \in 1 .. Len(items) : items[k] \notin AggregateItems
    /\ (reply.route = "GET /readings" /\ reply.status = 200) =>
          \A k \in 1 .. Len(reply.items) :
              /\ reply.items[k] \notin AggregateItems
              /\ reply.items[k] \in table
              /\ "endKWh" \in DOMAIN reply.items[k]

\* GET /readings has answered a list of readings for a window that holds the
\* timestamp of a stored aggregate row.
C27_Witness ==
    /\ reply.route = "GET /readings"
    /\ reply.status = 200
    /\ Len(reply.items) > 0
    /\ \E a \in AggregateItems :
          /\ reply.window.startTimestamp <= a.timestamp
          /\ a.timestamp <= reply.window.endTimestamp

\* The decimal text of the natural number n, as a query-string value.
RECURSIVE TextOf(_)
TextOf(n) ==
    LET c == CHOOSE x \in Digits : DigitVal(x) = n % 10
    IN  IF n < 10 THEN <<c>> ELSE TextOf(n \div 10) \o <<c>>

\* C28: the windows of parseYearMonth tile time.  For a call with the year Y
\* and the month M: startTimestamp < endTimestamp; for M in 1..11 the
\* endTimestamp is the startTimestamp of (Y, M + 1); for M = 12 it is the
\* startTimestamp of (Y + 1, 1) and the endTimestamp of the full-year window
\* of Y; for M = 1 the startTimestamp is the one of the full-year window of
\* Y; and the full-year window, too, has startTimestamp < endTimestamp.
C28_WindowsTile ==
    (reply.route = "parseYearMonth" /\ IsIntegerText(reply.queryYear)) =>
        LET y    == reply.queryYear
            Y    == IntegerOf(y)
            w    == reply.result
            full == parseYearMonth(y, Undefined)
            M    == IF IsIntegerText(reply.queryMonth) THEN IntegerOf(reply.queryMonth) ELSE 0
        IN  /\ w.startTimestamp < w.endTimestamp
            /\ M \in 1 .. 11 =>
                  w.endTimestamp = parseYearMonth(y, Str(TextOf(M + 1))).startTimestamp
            /\ M = 12 =>
                  /\ w.endTimestamp = parseYearMonth(Str(TextOf(Y + 1)), Str(<<"1">>)).startTimestamp
                  /\ w.endTimestamp = full.endTimestamp
            /\ M = 1 => w.startTimestamp = full.startTimestamp

\* C29: after fetchLatestKWh the value it puts into the field "current" is
\* above the latest endKWh and above the value shown as "previous", so that
\* the form submitted as it is passes the check of the page and is not
\* refused by the server for its delta.
C29_SuggestionAboveLatest ==
    (reply.route = "fetchLatestKWh" /\ ResOk(reply.res)) =>
        /\ reply.currentKWh > reply.res.latestEndKWh
        /\ reply.currentKWh > reply.prevKWh
        /\ ~reply.submit.refused
        /\ ValidCurrentKWh(Num(reply.submit.currentKWh))
        /\ ~DeltaRefused(DeltaKWh(reply.res.latestEndKWh, reply.submit.currentKWh))

\* C30: after renderTimeline has rendered a list of readings, every delete
\* button has exactly one click listener, and a click on a delete button,
\* confirmed, sends exactly one DELETE /readings/:id.
C30_OneListenerPerButton ==
    /\ reply.route = "renderTimeline" => \A id \in DOMAIN reply.buttons : reply.buttons[id] = 1
    /\ reply.route = "click" => reply.requests = 1

====
